---- MODULE Spec2Model ----
(***************************************************************************)
(* spade-docker (src/main.rs): the build-record subsystem.                 *)
(*                                                                         *)
(* The record of built images is the file hashes.txt in the data           *)
(* directory, rewritten through hashes.temp.txt and a rename.  `build`     *)
(* tees the builder's stderr, extracts the image hash and logs it; `clean` *)
(* walks the logged hashes, inspects each image, removes the ones carrying *)
(* the tool's label and shrinks the log.                                   *)
(*                                                                         *)
(* Text is modelled byte by byte: a byte is a one-character string, except *)
(* "C3"/"A9" (the two bytes of one non-ASCII character) and "00" (NUL).    *)
(***************************************************************************)
EXTENDS Naturals, Sequences, FiniteSets

\* ------------------------------------------------------------ bounds
\* Most identifiers in a record file the program starts from.
MaxLog == 2
\* Invocations (build or clean) started in one behaviour.
MaxRuns == 2
\* Invocations started in one behaviour of the concurrent specification.
MaxConcRuns == 3
\* Most bytes one read of the builder's stream, or one write(2) to the
\* temporary file, transfers.
MaxChunk == 3

\* ------------------------------------------------------------ bytes and text
NL == "\n"
CR == "\r"
SP == " "
TAB == "\t"
NUL == "00"
\* The two bytes of one two-byte UTF-8 character.
LeadByte == "C3"
ContByte == "A9"

Min(a, b) == IF a < b THEN a ELSE b

\* core::str::from_utf8 succeeds on these byte strings: every lead byte is
\* followed by its continuation byte and every continuation byte follows
\* its lead byte.
IsUtf8(bytes) ==
    \A k \in 1..Len(bytes) :
        /\ bytes[k] = LeadByte => k < Len(bytes) /\ bytes[k + 1] = ContByte
        /\ bytes[k] = ContByte => k > 1 /\ bytes[k - 1] = LeadByte

\* str::split(sep) for a one-byte separator: the pieces between the
\* separators, always at least one piece.
split(s, sep) ==
    LET seps == {k \in 1..Len(s) : s[k] = sep}
        n == Cardinality(seps)
        cut(i) == IF i = 0 THEN 0
                  ELSE IF i = n + 1 THEN Len(s) + 1
                  ELSE CHOOSE k \in seps : Cardinality({j \in seps : j <= k}) = i
    IN [i \in 1..(n + 1) |-> SubSeq(s, cut(i - 1) + 1, cut(i) - 1)]

\* [String]::join(sep).
RECURSIVE join(_, _)
join(list, sep) ==
    IF list = <<>> THEN <<>>
    ELSE IF Len(list) = 1 THEN list[1]
    ELSE list[1] \o <<sep>> \o join(Tail(list), sep)

\* str::lines(): the pieces ended by a line feed, each without one trailing
\* carriage return, and then what follows the last line feed, as it is,
\* unless it is empty.
lines(s) ==
    LET pieces == split(s, NL)
        n == Len(pieces)
        strip(l) == IF l # <<>> /\ l[Len(l)] = CR
                    THEN SubSeq(l, 1, Len(l) - 1) ELSE l
        ended == [k \in 1..(n - 1) |-> strip(pieces[k])]
    IN IF pieces[n] = <<>> THEN ended ELSE Append(ended, pieces[n])

\* str::contains(pat).
contains(s, pat) ==
    \E k \in 0..Len(s) : /\ k + Len(pat) <= Len(s)
                         /\ SubSeq(s, k + 1, k + Len(pat)) = pat

IsSpace(b) == b \in {SP, TAB, NL, CR}

\* str::trim: from the first to the last byte that is no white space.
trim(s) ==
    LET solid == {k \in 1..Len(s) : ~IsSpace(s[k])} IN
    IF solid = {} THEN <<>>
    ELSE SubSeq(s, CHOOSE k \in solid : \A j \in solid : k <= j,
                   CHOOSE k \in solid : \A j \in solid : k >= j)

\* Option: <<>> is None, <<v>> is Some(v).
None == <<>>
Some(v) == <<v>>

\* str::strip_prefix(prefix).
strip_prefix(s, prefix) ==
    IF Len(s) >= Len(prefix) /\ SubSeq(s, 1, Len(prefix)) = prefix
    THEN Some(SubSeq(s, Len(prefix) + 1, Len(s)))
    ELSE None

\* Iterator::find: the index of the first element whose test is TRUE.
FirstIndex(tests) ==
    IF \E k \in 1..Len(tests) : tests[k]
    THEN Some(CHOOSE k \in 1..Len(tests) :
                 /\ tests[k]
                 /\ \A j \in 1..(k - 1) : ~tests[j])
    ELSE None

\* ------------------------------------------------------------ hash extraction
\* "writing image sha256:"
Marker ==
    << "w", "r", "i", "t", "i", "n", "g", SP, "i", "m", "a", "g", "e", SP,
       "s", "h", "a", "2", "5", "6", ":" >>
\* "sha256:"
HashPrefix == << "s", "h", "a", "2", "5", "6", ":" >>

\* let last_line = stderr_captured.lines().find(|line| line.contains(..)):
\* None is the failing expect.
find_marker_line(text) ==
    LET ls == lines(text)
        at == FirstIndex([k \in 1..Len(ls) |-> contains(ls[k], Marker)])
    IN IF at = None THEN None ELSE Some(ls[at[1]])

\* last_line.split(' ').map(str::trim).find_map(|s| s.strip_prefix("sha256:")):
\* None is the failing expect.
find_hash(line) ==
    LET segs == split(line, SP)
        stripped == [k \in 1..Len(segs) |-> strip_prefix(trim(segs[k]), HashPrefix)]
        at == FirstIndex([k \in 1..Len(segs) |-> stripped[k] # None])
    IN IF at = None THEN None ELSE Some(stripped[at[1]][1])

\* The two steps together: Some(hash), or None when either expect panics.
extract_hash(text) ==
    LET line == find_marker_line(text)
    IN IF line = None THEN None ELSE find_hash(line[1])

\* ------------------------------------------------------------ label check
\* serde_json::Value.
JNull == [t |-> "null"]
JStr(s) == [t |-> "string", s |-> s]
JNum(n) == [t |-> "number", n |-> n]
JObj(m) == [t |-> "object", m |-> m]
JArr(a) == [t |-> "array", a |-> a]

\* Value[usize] and Value[&str]: Null when the value is no array/object or
\* has no such element.
IndexAt(v, k) ==
    IF v.t = "array" /\ k + 1 \in DOMAIN v.a THEN v.a[k + 1] ELSE JNull
IndexKey(v, key) ==
    IF v.t = "object" /\ key \in DOMAIN v.m THEN v.m[key] ELSE JNull
\* Value::as_str.
as_str(v) == IF v.t = "string" THEN Some(v.s) ELSE None

\* Variant of is_owned: every parsed document counts as owned.
any_document(image_info) == TRUE

\* Variant of is_owned: any string under the tool key counts.
has_tool_label(image_info) ==
    as_str(IndexKey(IndexKey(IndexKey(IndexAt(image_info, 0),
                    "Config"), "Labels"), "tool")) # None

\* image_info[0]["Config"]["Labels"]["tool"].as_str()
\*     .map(|value| value == "spade-docker").unwrap_or_default()
is_owned(image_info) ==
    LET tool == as_str(IndexKey(IndexKey(IndexKey(IndexAt(image_info, 0),
                                "Config"), "Labels"), "tool"))
    IN IF tool = None THEN FALSE ELSE tool[1] = "spade-docker"

Labelled(labels) == JArr(<< JObj([Config |-> JObj([Labels |-> labels])]) >>)
\* Inspection documents the inspector can print.
Docs ==
    { Labelled(JObj([tool |-> JStr("spade-docker")])),
      Labelled(JObj([tool |-> JStr("Spade-Docker")])),
      Labelled(JObj([tool |-> JNum(1)])),
      Labelled(JObj([maintainer |-> JStr("spade-docker")])),
      Labelled(JNull),
      JArr(<< JObj([Id |-> JStr("x")]) >>),
      JArr(<< >>) }

\* ------------------------------------------------------------ inputs
\* Image hashes as the record file holds them.
Ids == { <<"a">>, <<"b">> }

RECURSIVE LogsOfLen(_)
LogsOfLen(n) ==
    IF n = 0 THEN { <<>> }
    ELSE { Append(l, h) : l \in LogsOfLen(n - 1), h \in Ids }
\* Logs a record file can hold when an invocation starts.
InitLogs == UNION { LogsOfLen(n) : n \in 0..MaxLog }

Text(hash_token, tail) == Marker \o hash_token \o tail
\* What `docker build --progress plain` can write to its stderr.
Outputs ==
    { \* one success line
      <<"#", "1", SP>> \o Text(<<"a">>, <<SP, "d", "o", "n", "e", NL>>),
      \* two success lines with different hashes
      Text(<<"b">>, <<NL>>) \o Text(<<"c">>, <<NL>>),
      \* no success line
      <<"E", "R", "R", "O", "R", NL>>,
      \* the marker with nothing after the colon
      Text(<<>>, <<SP, "d", "o", "n", "e">>),
      \* CRLF line ends and a non-ASCII character
      <<LeadByte, ContByte, CR, NL>> \o Text(<<"c">>, <<CR, NL>>) }
\* The outputs used when two invocations run at once.
ConcOutputs == { Text(<<"b">>, <<>>) }

\* ------------------------------------------------------------ state
Procs == {1, 2}
\* fn data_dir() joined with the two file names.
log_file == "hashes.txt"
\* Variant of temp_file: the new log is written straight to hashes.txt.
temp_file_in_place == "hashes.txt"
temp_file == "hashes.temp.txt"
Paths == {log_file, temp_file}
\* Inode numbers; 0 stands for "no inode".
Inodes == 1..(2 + Cardinality(Procs))

VARIABLES
    files,      \* directory: path -> inode, 0 when the path does not exist
    data,       \* inode -> bytes
    pc,         \* process -> position in main
    kind,       \* process -> "build" | "clean" | "none"
    stream,     \* process -> bytes the builder writes to its stderr
    pos,        \* process -> bytes of the stream already read
    captured,   \* process -> stderr_captured
    terminal,   \* process -> bytes forwarded to the terminal (io::stderr)
    hash,       \* process -> hash extracted by the build
    logged,     \* process -> logged_images
    idx,        \* process -> i + 1 of the clean loop
    image_info, \* process -> the document parsed in the running pass
    wbuf,       \* process -> new_log.join("\n") being written
    fd,         \* process -> inode of the open temporary file, 0 when closed
    off,        \* process -> offset of that open file
    outcome,    \* process -> how the last invocation ended
    at,         \* process -> where the last invocation ended
    budget,     \* invocations that may still start
    \* observations kept for the properties
    startLog,   \* process -> canonical file when the invocation started
    preLog,     \* process -> canonical file when its last replace started
    readFailed, \* process -> a read of the builder's stream returned Err
    eof,        \* process -> a read of the builder's stream returned 0
    removed,    \* process -> hashes whose `docker rmi` reported success
    kept,       \* process -> hashes whose `docker rmi` reported failure
    prevHash,   \* process -> hash logged by its previous successful build
    seen,       \* process -> canonical file as its last load found it
    complete,   \* the canonical file when no invocation was running, and every
                \* content given to a replace since
    pass,       \* process -> what the clean loop did at each position so far
    stale       \* process -> for a clean, the identifiers its previous clean
                \* had removed when it was killed inside a replace and that
                \* were still stored when this one started

fsVars == <<files, data>>
buildVars == <<stream, pos, captured, terminal, hash>>
writeVars == <<wbuf, fd, off>>
obsVars == <<startLog, preLog, readFailed, eof, removed, kept, prevHash, seen,
            complete, pass, stale>>
vars == <<files, data, pc, kind, stream, pos, captured, terminal, hash,
          logged, idx, image_info, wbuf, fd, off, outcome, at, budget, startLog,
          preLog, readFailed, eof, removed, kept, prevHash, seen, complete,
          pass, stale>>

\* The canonical file as a reader finds it.
FileAt(fs, dt, path) ==
    [exists |-> fs[path] # 0,
     bytes |-> IF fs[path] # 0 THEN dt[fs[path]] ELSE <<>>]
LogState == FileAt(files, data, log_file)

\* Inodes with no name and no open descriptor are freed.
Referenced(fs, fds) == {fs[q] : q \in Paths} \cup {fds[p] : p \in Procs}
Collect(fs, dt, fds) ==
    [i \in Inodes |-> IF i \in Referenced(fs, fds) THEN dt[i] ELSE <<>>]
FreshInode ==
    CHOOSE i \in Inodes :
        /\ i \notin Referenced(files, fd)
        /\ \A j \in Inodes : j < i => j \in Referenced(files, fd)

\* write(2) of `bytes` at offset `o`: a gap left by a truncation reads as NUL.
WriteAt(content, o, bytes) ==
    LET end == o + Len(bytes)
        size == IF Len(content) > end THEN Len(content) ELSE end
    IN [k \in 1..size |->
          IF k > o /\ k <= end THEN bytes[k - o]
          ELSE IF k <= Len(content) THEN content[k]
          ELSE NUL]

\* fn retrieve_logged_images: the Vec it returns for a readable file.
retrieve_logged_images(file) ==
    IF file.exists THEN split(file.bytes, NL) ELSE <<>>
\* String::from_utf8(..).expect(..) in retrieve_logged_images panics.
retrieve_panics(file) == file.exists /\ ~IsUtf8(file.bytes)

\* Variant of append_if_absent: the push is not guarded by contains.
append_always(logged_images, h) == Append(logged_images, h)

\* fn log_image, lines 115-117: push unless contained.
append_if_absent(logged_images, h) ==
    IF \E k \in 1..Len(logged_images) : logged_images[k] = h
    THEN logged_images
    ELSE Append(logged_images, h)

\* Variant of suffix_after: the slice starts at i, not at i + 1.
suffix_from(logged_images, k) == SubSeq(logged_images, k, Len(logged_images))

\* &logged_images[i + 1..] with i = k - 1.
suffix_after(logged_images, k) == SubSeq(logged_images, k + 1, Len(logged_images))

EmptyFile == [exists |-> FALSE, bytes |-> <<>>]

InitWith(n) ==
    /\ \E l \in InitLogs, present \in BOOLEAN :
          /\ present \/ l = <<>>
          /\ files = [q \in Paths |-> IF q = log_file /\ present THEN 1 ELSE 0]
          /\ data = [i \in Inodes |-> IF i = 1 /\ present THEN join(l, NL) ELSE <<>>]
    /\ pc = [p \in Procs |-> "idle"]
    /\ kind = [p \in Procs |-> "none"]
    /\ stream = [p \in Procs |-> <<>>]
    /\ pos = [p \in Procs |-> 0]
    /\ captured = [p \in Procs |-> <<>>]
    /\ terminal = [p \in Procs |-> <<>>]
    /\ hash = [p \in Procs |-> None]
    /\ logged = [p \in Procs |-> <<>>]
    /\ idx = [p \in Procs |-> 0]
    /\ image_info = [p \in Procs |-> JNull]
    /\ wbuf = [p \in Procs |-> <<>>]
    /\ fd = [p \in Procs |-> 0]
    /\ off = [p \in Procs |-> 0]
    /\ outcome = [p \in Procs |-> "none"]
    /\ at = [p \in Procs |-> "idle"]
    /\ budget = n
    /\ startLog = [p \in Procs |-> EmptyFile]
    /\ preLog = [p \in Procs |-> EmptyFile]
    /\ readFailed = [p \in Procs |-> FALSE]
    /\ eof = [p \in Procs |-> FALSE]
    /\ removed = [p \in Procs |-> {}]
    /\ kept = [p \in Procs |-> {}]
    /\ prevHash = [p \in Procs |-> None]
    /\ seen = [p \in Procs |-> EmptyFile]
    /\ complete = {LogState}
    /\ pass = [p \in Procs |-> <<>>]
    /\ stale = [p \in Procs |-> {}]

Init == InitWith(MaxRuns)
InitConc == InitWith(MaxConcRuns)

\* ------------------------------------------------------------ steps of main
\* let mut buffer = [0; 1024];
BufSize == 1024

\* The invocation of p ends (return, panic or kill): its descriptor closes.
Ends(p, how, fs1, dt1) ==
    /\ pc' = [pc EXCEPT ![p] = "idle"]
    /\ outcome' = [outcome EXCEPT ![p] = how]
    /\ at' = [at EXCEPT ![p] = pc[p]]
    /\ stream' = [stream EXCEPT ![p] = <<>>]
    /\ pos' = [pos EXCEPT ![p] = 0]
    /\ captured' = [captured EXCEPT ![p] = <<>>]
    /\ terminal' = [terminal EXCEPT ![p] = <<>>]
    /\ logged' = [logged EXCEPT ![p] = <<>>]
    /\ idx' = [idx EXCEPT ![p] = 0]
    /\ image_info' = [image_info EXCEPT ![p] = JNull]
    /\ wbuf' = [wbuf EXCEPT ![p] = <<>>]
    /\ off' = [off EXCEPT ![p] = 0]
    /\ fd' = [fd EXCEPT ![p] = 0]
    /\ files' = fs1
    /\ data' = Collect(fs1, dt1, [fd EXCEPT ![p] = 0])

\* What every invocation resets when it starts.
Begins(p, k) ==
    /\ pc[p] = "idle"
    /\ budget > 0
    /\ budget' = budget - 1
    /\ kind' = [kind EXCEPT ![p] = k]
    /\ outcome' = [outcome EXCEPT ![p] = "running"]
    /\ at' = [at EXCEPT ![p] = "idle"]
    /\ hash' = [hash EXCEPT ![p] = None]
    /\ startLog' = [startLog EXCEPT ![p] = LogState]
    /\ preLog' = [preLog EXCEPT ![p] = EmptyFile]
    /\ readFailed' = [readFailed EXCEPT ![p] = FALSE]
    /\ eof' = [eof EXCEPT ![p] = FALSE]
    /\ removed' = [removed EXCEPT ![p] = {}]
    /\ kept' = [kept EXCEPT ![p] = {}]
    /\ prevHash' = [prevHash EXCEPT ![p] =
                       IF kind[p] = "build" /\ outcome[p] = "ok" THEN hash[p] ELSE None]
    /\ seen' = [seen EXCEPT ![p] = EmptyFile]
    /\ complete' = IF \A q \in Procs : pc[q] = "idle" THEN {LogState} ELSE complete
    /\ pass' = [pass EXCEPT ![p] = <<>>]
    /\ stale' = [stale EXCEPT ![p] =
                    IF k = "clean" /\ kind[p] = "clean" /\ outcome[p] = "killed"
                           /\ at[p] \in {"open", "write", "rename"}
                    THEN {h \in removed[p] :
                            \E j \in 1..Len(retrieve_logged_images(LogState)) :
                                retrieve_logged_images(LogState)[j] = h}
                    ELSE {}]

\* Subcommand::Build: `docker build` is spawned and its stderr piped.
StartBuild(p, out) ==
    /\ Begins(p, "build")
    /\ pc' = [pc EXCEPT ![p] = "read"]
    /\ stream' = [stream EXCEPT ![p] = out]
    /\ UNCHANGED <<fsVars, pos, captured, terminal, logged, idx, image_info,
                   writeVars>>

\* One pass of the read loop with Ok(amount), amount > 0: the chunk is
\* decoded, appended to stderr_captured and forwarded to stderr.
ReadChunk(p, amount) ==
    /\ pc[p] = "read"
    /\ amount \in 1..Min(BufSize, Len(stream[p]) - pos[p])
    /\ LET chunk == SubSeq(stream[p], pos[p] + 1, pos[p] + amount) IN
       IF IsUtf8(chunk)
       THEN /\ captured' = [captured EXCEPT ![p] = @ \o chunk]
            /\ terminal' = [terminal EXCEPT ![p] = @ \o chunk]
            /\ pos' = [pos EXCEPT ![p] = @ + amount]
            /\ UNCHANGED <<fsVars, pc, stream, logged, idx, image_info,
                           writeVars, outcome, at>>
       ELSE Ends(p, "panic", files, data)
    /\ UNCHANGED <<kind, hash, budget, obsVars>>

\* The read returns Ok(0) at the end of the stream: break.
ReadEof(p) ==
    /\ pc[p] = "read"
    /\ pos[p] = Len(stream[p])
    /\ pc' = [pc EXCEPT ![p] = "extract"]
    /\ eof' = [eof EXCEPT ![p] = TRUE]
    /\ UNCHANGED <<fsVars, kind, buildVars, logged, idx, image_info, writeVars,
                   outcome, at, budget, startLog, preLog, readFailed, removed,
                   kept, prevHash, seen, complete, pass, stale>>

\* The read returns Err: `while let Ok(amount)` stops matching and the loop
\* is left like after a break.
ReadErr(p) ==
    /\ pc[p] = "read"
    /\ pc' = [pc EXCEPT ![p] = "extract"]
    /\ readFailed' = [readFailed EXCEPT ![p] = TRUE]
    /\ UNCHANGED <<fsVars, kind, buildVars, logged, idx, image_info, writeVars,
                   outcome, at, budget, startLog, preLog, eof, removed, kept,
                   prevHash, seen, complete, pass, stale>>

\* Lines 185-193: the hash, or a panic of one of the two expects.
ExtractHash(p) ==
    /\ pc[p] = "extract"
    /\ LET found == extract_hash(captured[p]) IN
       IF found = None
       THEN /\ Ends(p, "panic", files, data)
            /\ UNCHANGED hash
       ELSE /\ hash' = [hash EXCEPT ![p] = found]
            /\ pc' = [pc EXCEPT ![p] = "log_image"]
            /\ UNCHANGED <<fsVars, stream, pos, captured, terminal, logged,
                           idx, image_info, writeVars, outcome, at>>
    /\ UNCHANGED <<kind, budget, obsVars>>

\* fn log_image up to the call of try_update_log.
LogImage(p) ==
    /\ pc[p] = "log_image"
    /\ IF retrieve_panics(LogState)
       THEN /\ Ends(p, "panic", files, data)
            /\ UNCHANGED <<preLog, seen, complete>>
       ELSE LET logged_images == append_if_absent(retrieve_logged_images(LogState),
                                                  hash[p][1]) IN
            /\ logged' = [logged EXCEPT ![p] = logged_images]
            /\ wbuf' = [wbuf EXCEPT ![p] = join(logged_images, NL)]
            /\ preLog' = [preLog EXCEPT ![p] = LogState]
            /\ seen' = [seen EXCEPT ![p] = LogState]
            /\ complete' = complete \cup {[exists |-> TRUE,
                                            bytes |-> join(logged_images, NL)]}
            /\ pc' = [pc EXCEPT ![p] = "open"]
            /\ UNCHANGED <<fsVars, stream, pos, captured, terminal, idx,
                           image_info, fd, off, outcome, at>>
    /\ UNCHANGED <<kind, hash, budget, startLog, readFailed, eof, removed, kept,
                   prevHash, pass, stale>>

\* Subcommand::Clean.
StartClean(p) ==
    /\ Begins(p, "clean")
    /\ pc' = [pc EXCEPT ![p] = "load"]
    /\ UNCHANGED <<fsVars, stream, pos, captured, terminal, logged, idx,
                   image_info, writeVars>>

\* let logged_images = retrieve_logged_images()?;
CleanLoad(p) ==
    /\ pc[p] = "load"
    /\ IF retrieve_panics(LogState)
       THEN /\ Ends(p, "panic", files, data)
            /\ UNCHANGED seen
       ELSE /\ logged' = [logged EXCEPT ![p] = retrieve_logged_images(LogState)]
            /\ seen' = [seen EXCEPT ![p] = LogState]
            /\ idx' = [idx EXCEPT ![p] = 1]
            /\ pc' = [pc EXCEPT ![p] = "loop"]
            /\ UNCHANGED <<fsVars, stream, pos, captured, terminal, image_info,
                           writeVars, outcome, at>>
    /\ UNCHANGED <<kind, hash, budget, startLog, preLog, readFailed, eof,
                   removed, kept, prevHash, complete, pass, stale>>

\* What `docker image inspect` and the decoding of its stdout can give.
InspectResults ==
    { <<"io_error", JNull>>, <<"bad_utf8", JNull>>, <<"bad_json", JNull>> }
        \cup { <<"doc", d>> : d \in Docs }
\* The inspections used when two invocations run at once: a failure, an
\* owned image and one that is not.
ConcInspectResults ==
    { <<"io_error", JNull>>,
      <<"doc", Labelled(JObj([tool |-> JStr("spade-docker")]))>>,
      <<"doc", JArr(<< >>)>> }
\* What spawning and waiting for `docker rmi -f` can give.
RmiResults == { "io_error", "success", "failure" }

\* Variant of inspect_failure: a failed inspection is passed over.
inspect_failure_skipped(res) == "none"

\* How lines 199-206 leave main when the inspection fails: `?` on
\* Command::output and on serde_json::from_str returns the error, the expect
\* on String::from_utf8 panics; "none" when a document was parsed.
inspect_failure(res) ==
    IF res[1] = "io_error" \/ res[1] = "bad_json" THEN "err"
    ELSE IF res[1] = "bad_utf8" THEN "panic"
    ELSE "none"

\* Lines 199-206 of one pass of the for loop: the inspector is run and its
\* stdout decoded and parsed.
Inspect(p, res) ==
    /\ pc[p] = "loop"
    /\ idx[p] <= Len(logged[p])
    /\ pass' = [pass EXCEPT ![p] =
                   Append(@, IF res[1] = "doc" THEN "inspected" ELSE "failed")]
    /\ IF inspect_failure(res) # "none"
       THEN Ends(p, inspect_failure(res), files, data)
       ELSE /\ image_info' = [image_info EXCEPT ![p] = res[2]]
            /\ pc' = [pc EXCEPT ![p] = "check"]
            /\ UNCHANGED <<fsVars, stream, pos, captured, terminal, logged, idx,
                           writeVars, outcome, at>>
    /\ UNCHANGED <<kind, hash, budget, startLog, preLog, readFailed, eof,
                   removed, kept, prevHash, seen, complete, stale>>

\* Lines 207-211: the label check decides whether the pass goes on to the
\* removal or ends.
LabelCheck(p) ==
    /\ pc[p] = "check"
    /\ IF is_owned(image_info[p])
       THEN /\ pc' = [pc EXCEPT ![p] = "rmi"]
            /\ pass' = [pass EXCEPT ![p][idx[p]] = "owned"]
            /\ UNCHANGED <<idx, image_info>>
       ELSE /\ pc' = [pc EXCEPT ![p] = "loop"]
            /\ pass' = [pass EXCEPT ![p][idx[p]] = "not_owned"]
            /\ idx' = [idx EXCEPT ![p] = @ + 1]
            /\ image_info' = [image_info EXCEPT ![p] = JNull]
    /\ UNCHANGED <<fsVars, kind, buildVars, logged, writeVars, outcome, at,
                   budget, startLog, preLog, readFailed, eof, removed, kept,
                   prevHash, seen, complete, stale>>

\* Lines 212-218 up to the call of try_update_log.
Rmi(p, res) ==
    /\ pc[p] = "rmi"
    /\ LET image_hash == logged[p][idx[p]] IN
       IF res = "io_error"
       THEN /\ Ends(p, "err", files, data)
            /\ UNCHANGED <<removed, kept, preLog, complete, pass>>
       ELSE IF res = "success"
       THEN /\ removed' = [removed EXCEPT ![p] = @ \cup {image_hash}]
            /\ pass' = [pass EXCEPT ![p][idx[p]] = "removed"]
            /\ complete' = complete \cup
                   {[exists |-> TRUE,
                     bytes |-> join(suffix_after(logged[p], idx[p]), NL)]}
            /\ wbuf' = [wbuf EXCEPT ![p] = join(suffix_after(logged[p], idx[p]), NL)]
            /\ preLog' = [preLog EXCEPT ![p] = LogState]
            /\ pc' = [pc EXCEPT ![p] = "open"]
            /\ UNCHANGED <<fsVars, stream, pos, captured, terminal, logged, idx,
                           image_info, fd, off, outcome, at, kept>>
       ELSE /\ kept' = [kept EXCEPT ![p] = @ \cup {image_hash}]
            /\ pass' = [pass EXCEPT ![p][idx[p]] = "kept"]
            /\ idx' = [idx EXCEPT ![p] = @ + 1]
            /\ image_info' = [image_info EXCEPT ![p] = JNull]
            /\ pc' = [pc EXCEPT ![p] = "loop"]
            /\ UNCHANGED <<fsVars, stream, pos, captured, terminal, logged,
                           writeVars, outcome, at, removed, preLog, complete>>
    /\ UNCHANGED <<kind, hash, budget, startLog, readFailed, eof, prevHash,
                   seen, stale>>

\* The for loop has no element left: Ok(()).
LoopEnd(p) ==
    /\ pc[p] = "loop"
    /\ idx[p] > Len(logged[p])
    /\ Ends(p, "ok", files, data)
    /\ UNCHANGED <<kind, hash, budget, obsVars>>

\* fn try_update_log, fs::write: the temporary file is created or truncated.
OpenTemp(p) ==
    /\ pc[p] = "open"
    /\ LET ino == IF files[temp_file] # 0 THEN files[temp_file] ELSE FreshInode
           fs1 == [files EXCEPT ![temp_file] = ino]
           dt1 == [data EXCEPT ![ino] = <<>>]
           fd1 == [fd EXCEPT ![p] = IF wbuf[p] = <<>> THEN 0 ELSE ino]
       IN /\ files' = fs1
          /\ fd' = fd1
          /\ data' = Collect(fs1, dt1, fd1)
          /\ pc' = [pc EXCEPT ![p] = IF wbuf[p] = <<>> THEN "rename" ELSE "write"]
    /\ off' = [off EXCEPT ![p] = 0]
    /\ UNCHANGED <<kind, buildVars, logged, idx, image_info, wbuf, outcome, at,
                   budget, obsVars>>

\* fn try_update_log, fs::write: one write(2) of write_all; the file is
\* closed after the last one.
WriteChunk(p, amount) ==
    /\ pc[p] = "write"
    /\ amount \in 1..(Len(wbuf[p]) - off[p])
    /\ LET bytes == SubSeq(wbuf[p], off[p] + 1, off[p] + amount)
           dt1 == [data EXCEPT ![fd[p]] = WriteAt(@, off[p], bytes)]
           last == off[p] + amount = Len(wbuf[p])
           fd1 == [fd EXCEPT ![p] = IF last THEN 0 ELSE @]
       IN /\ fd' = fd1
          /\ data' = Collect(files, dt1, fd1)
          /\ off' = [off EXCEPT ![p] = IF last THEN 0 ELSE @ + amount]
          /\ pc' = [pc EXCEPT ![p] = IF last THEN "rename" ELSE "write"]
    /\ UNCHANGED <<files, kind, buildVars, logged, idx, image_info, wbuf,
                   outcome, at, budget, obsVars>>

\* fn try_update_log, fs::rename(temp_file, log_file), and the return to the
\* caller: log_image returns, the for loop goes on.
Rename(p) ==
    /\ pc[p] = "rename"
    /\ IF files[temp_file] = 0
       THEN Ends(p, "err", files, data)
       ELSE LET fs1 == [q \in Paths |->
                          IF q = log_file THEN files[temp_file] ELSE 0] IN
            IF kind[p] = "build"
            THEN Ends(p, "ok", fs1, data)
            ELSE /\ files' = fs1
                 /\ data' = Collect(fs1, data, fd)
                 /\ idx' = [idx EXCEPT ![p] = @ + 1]
                 /\ image_info' = [image_info EXCEPT ![p] = JNull]
                 /\ pc' = [pc EXCEPT ![p] = "loop"]
                 /\ UNCHANGED <<stream, pos, captured, terminal, logged,
                                writeVars, outcome, at>>
    /\ UNCHANGED <<kind, hash, budget, obsVars>>

\* A file operation of the store fails: `?` returns the io::Error.
IoError(p) ==
    /\ pc[p] \in {"load", "log_image", "open", "write", "rename"}
    /\ pc[p] \in {"load", "log_image"} => LogState.exists
    /\ Ends(p, "err", files, data)
    /\ UNCHANGED <<kind, hash, budget, obsVars>>

\* The process is killed.
Crash(p) ==
    /\ pc[p] # "idle"
    /\ Ends(p, "killed", files, data)
    /\ UNCHANGED <<kind, hash, budget, obsVars>>

Step(p, outs) ==
    \/ \E out \in outs : StartBuild(p, out)
    \/ \E amount \in 1..MaxChunk : ReadChunk(p, amount)
    \/ ReadEof(p)
    \/ ReadErr(p)
    \/ ExtractHash(p)
    \/ LogImage(p)
    \/ StartClean(p)
    \/ CleanLoad(p)
    \/ \E res \in InspectResults : Inspect(p, res)
    \/ LabelCheck(p)
    \/ \E res \in RmiResults : Rmi(p, res)
    \/ LoopEnd(p)
    \/ OpenTemp(p)
    \/ \E amount \in 1..MaxChunk : WriteChunk(p, amount)
    \/ Rename(p)
    \/ IoError(p)
    \/ Crash(p)

\* One invocation at a time.
Next == Step(1, Outputs)
Spec == Init /\ [][Next]_vars

\* Two invocations at once.
\* No process is killed and no file operation fails for a reason other
\* than the other invocation.
StepConc(p) ==
    \/ \E out \in ConcOutputs : StartBuild(p, out)
    \/ \E amount \in 1..MaxChunk : ReadChunk(p, amount)
    \/ ReadEof(p)
    \/ ExtractHash(p)
    \/ LogImage(p)
    \/ StartClean(p)
    \/ CleanLoad(p)
    \/ \E res \in ConcInspectResults : Inspect(p, res)
    \/ LabelCheck(p)
    \/ \E res \in RmiResults : Rmi(p, res)
    \/ LoopEnd(p)
    \/ OpenTemp(p)
    \/ \E amount \in 1..MaxChunk : WriteChunk(p, amount)
    \/ Rename(p)
NextConc == \E p \in Procs : StepConc(p)
SpecConc == InitConc /\ [][NextConc]_vars

\* ------------------------------------------------------------ properties
\* p is inside try_update_log and its rename has not completed.
InReplace(p) == pc[p] \in {"open", "write", "rename"}
\* The last invocation of p was killed, or failed, inside try_update_log
\* before its rename completed.
DiedInReplace(p) ==
    /\ pc[p] = "idle"
    /\ outcome[p] \in {"killed", "err"}
    /\ at[p] \in {"open", "write", "rename"}
\* p has loaded the record file in its running invocation.
HasLoaded(p) == pc[p] \in {"loop", "check", "rmi", "open", "write", "rename"}

\* C1: with one invocation at a time, at every point of a replace before
\* its rename completes, and after a kill or a failure at such a point, the
\* canonical file is the one the replace found, and a load returns what it
\* would have returned before the replace started.
C1_CrashAtomicity ==
    \A p \in Procs :
        (InReplace(p) \/ DiedInReplace(p)) =>
            /\ LogState = preLog[p]
            /\ retrieve_logged_images(LogState) = retrieve_logged_images(preLog[p])
\* A replace was killed with the temporary file partly written, over a
\* record that held identifiers.
C1_Witness ==
    \E p \in Procs :
        /\ outcome[p] = "killed" /\ at[p] = "write" /\ pc[p] = "idle"
        /\ preLog[p].bytes # <<>>
        /\ files[temp_file] # 0
        /\ data[files[temp_file]] # <<>>
        /\ data[files[temp_file]] # LogState.bytes

\* C2: with invocations running at once, the file a load finds is the
\* canonical file as it was when no invocation was running or a content
\* some replace was given, whole.
C2_ReaderAtomicity ==
    \A p \in Procs : HasLoaded(p) => seen[p] \in complete

\* The argument new_log of the try_update_log p is inside of.
NewLog(p) ==
    IF kind[p] = "build" THEN logged[p] ELSE suffix_after(logged[p], idx[p])
\* The step is the successful rename of p.
Renames(p) ==
    /\ pc[p] = "rename"
    /\ pc'[p] # "rename"
    /\ files[temp_file] # 0
    /\ files'[temp_file] = 0
NoEmptyElement(log) == \A k \in 1..Len(log) : log[k] # <<>>

\* C3: a replace of a log with no empty element, followed by a load, gives
\* that log back, the empty log included.
C3_RoundTrip ==
    [][\A p \in Procs :
          (Renames(p) /\ NoEmptyElement(NewLog(p))) =>
              retrieve_logged_images(LogState') = NewLog(p)]_vars

\* C4: appending the logged hash again to the log a build is about to
\* write changes nothing, and a successful build that extracts the hash of
\* the successful build before it leaves the record file as it found it.
C4_IdempotentAppend ==
    \A p \in Procs :
        /\ (kind[p] = "build" /\ InReplace(p)) =>
               append_if_absent(logged[p], hash[p][1]) = logged[p]
        /\ (kind[p] = "build" /\ pc[p] = "idle" /\ outcome[p] = "ok"
                /\ prevHash[p] = hash[p]) =>
               LogState = startLog[p]
\* A second successful build has extracted the hash of the one before it.
C4_Witness ==
    \E p \in Procs :
        /\ kind[p] = "build" /\ pc[p] = "idle" /\ outcome[p] = "ok"
        /\ hash[p] # None
        /\ prevHash[p] = hash[p]
        /\ Len(retrieve_logged_images(LogState)) >= 2

\* The lines of the text that contain the marker, in order.
MarkerLineIndexes(text) ==
    {k \in 1..Len(lines(text)) : contains(lines(text)[k], Marker)}
LastMarkerLine(text) ==
    lines(text)[CHOOSE k \in MarkerLineIndexes(text) :
                    \A j \in MarkerLineIndexes(text) : j <= k]
MarkerHashes(text) ==
    {find_hash(lines(text)[k]) : k \in MarkerLineIndexes(text)}

\* C5: when the whole output holds marker lines with different hashes, the
\* hash the build goes on to record is the one of the last marker line.
C5_LastMatch ==
    \A p \in Procs :
        (pc[p] = "log_image" /\ eof[p] /\ Cardinality(MarkerHashes(captured[p])) >= 2) =>
            hash[p] = find_hash(LastMarkerLine(captured[p]))

\* C6: a build that has read its whole output and goes on to record a hash
\* has read a marker line, and the hash it passes on is not empty.
C6_ExtractorFailures ==
    \A p \in Procs :
        (pc[p] = "log_image" /\ eof[p]) =>
            /\ MarkerLineIndexes(captured[p]) # {}
            /\ hash[p] # None
            /\ hash[p][1] # <<>>

\* The last build of p failed: an error, a panic, or a failed read of the
\* builder's stream.
BuildFailed(p) ==
    /\ kind[p] = "build"
    /\ pc[p] = "idle"
    /\ outcome[p] \in {"err", "panic"} \/ readFailed[p]

\* C7: a build replaces the store only after its stream has ended and a
\* hash was extracted, and a failed build leaves the canonical file as it
\* was when the build started.
C7_RecordOnlyAfterSuccess ==
    \A p \in Procs :
        /\ (kind[p] = "build" /\ InReplace(p)) =>
               (eof[p] /\ ~readFailed[p] /\ hash[p] # None)
        /\ BuildFailed(p) => LogState = startLog[p]

\* C8: a build whose read of the builder's stream failed neither passes a
\* hash on to be recorded nor ends with success.
C8_ReadFailureIsError ==
    \A p \in Procs :
        (kind[p] = "build" /\ readFailed[p]) =>
            /\ hash[p] = None
            /\ pc[p] = "idle" => outcome[p] # "ok"

\* The step changes the canonical file: its inode or its bytes.
LogRewritten == files'[log_file] # files[log_file] \/ LogState' # LogState

\* C9: a running clean changes the canonical file only by the rename that
\* follows a removal reported successful for the identifier at its
\* position, and the file then holds the identifiers after that position,
\* one per line.
C9_PruneShrink ==
    [][\A p \in Procs :
          (kind[p] = "clean" /\ pc[p] # "idle" /\ LogRewritten) =>
              /\ pc[p] = "rename"
              /\ logged[p][idx[p]] \in removed[p]
              /\ LogState' = [exists |-> TRUE,
                              bytes |-> join(SubSeq(logged[p], idx[p] + 1,
                                                    Len(logged[p])), NL)]]_vars
\* The clean of the log [a, b, c] where a was not owned, the removal of b
\* succeeded and the removal of c failed has ended with the record [c].
C9_Witness ==
    \E p \in Procs :
        /\ kind[p] = "clean" /\ pc[p] = "idle" /\ outcome[p] = "ok"
        /\ startLog[p].bytes = <<"a", NL, "b", NL, "c">>
        /\ removed[p] = { <<"b">> }
        /\ kept[p] = { <<"c">> }
        /\ LogState = [exists |-> TRUE, bytes |-> <<"c">>]

\* The identifiers a load of the canonical file returns.
StoredIds ==
    {retrieve_logged_images(LogState)[k] :
        k \in 1..Len(retrieve_logged_images(LogState))}

\* C10: between the passes of a clean over a log of non-empty identifiers,
\* the stored log holds no identifier whose removal was reported successful
\* in that run.
C10_PruneInvariant ==
    \A p \in Procs :
        (kind[p] = "clean" /\ pc[p] = "loop" /\ NoEmptyElement(logged[p])) =>
            removed[p] \cap StoredIds = {}

\* The positions of the loaded log whose removal was reported successful.
RemovedAt(p) == {k \in 1..Len(pass[p]) : pass[p][k] = "removed"}
\* The canonical file after the last shrink a clean of p has persisted, or
\* as the clean found it when it has persisted none.
LastShrink(p) ==
    IF RemovedAt(p) = {}
    THEN startLog[p]
    ELSE LET log == retrieve_logged_images(startLog[p])
             last == CHOOSE k \in RemovedAt(p) : \A j \in RemovedAt(p) : j <= k
         IN [exists |-> TRUE,
             bytes |-> join(SubSeq(log, last + 1, Len(log)), NL)]

\* C11: once the inspection of the identifier at position i has failed, the
\* clean has ended with an error or a panic, position i is the last one it
\* has inspected or asked to remove, and the canonical file is the one its
\* last persisted shrink left, or the one it found when it persisted none.
C11_AbortOnInspectFailure ==
    \A p \in Procs : \A i \in 1..Len(pass[p]) :
        pass[p][i] = "failed" =>
            /\ pc[p] = "idle"
            /\ outcome[p] \in {"err", "panic"}
            /\ Len(pass[p]) = i
            /\ LogState = LastShrink(p)
\* A clean of [a, b] removed a, persisted the shrink to [b], and ended with
\* an error when the inspection of b failed.
C11_Witness ==
    \E p \in Procs :
        /\ kind[p] = "clean" /\ pc[p] = "idle" /\ outcome[p] = "err"
        /\ startLog[p].bytes = <<"a", NL, "b">>
        /\ pass[p] = <<"removed", "failed">>
        /\ LogState = [exists |-> TRUE, bytes |-> <<"b">>]

\* The last clean of p was ended by the pass over position i.
AbortedAt(p, i) ==
    /\ kind[p] = "clean"
    /\ pc[p] = "idle"
    /\ outcome[p] \in {"err", "panic"}
    /\ at[p] = "loop"
    /\ Len(pass[p]) = i

\* C12: a clean killed inside the replace that follows a successful removal
\* leaves the removed identifier in the stored log, and the next clean, over
\* a log of non-empty identifiers, is not ended by a failed inspection of
\* such an identifier.
C12_StaleTolerated ==
    \A p \in Procs :
        /\ (kind[p] = "clean" /\ DiedInReplace(p) /\ outcome[p] = "killed") =>
               retrieve_logged_images(startLog[p])[Len(pass[p])] \in StoredIds
        /\ \A i \in 1..Len(pass[p]) :
               (/\ pass[p][i] = "failed"
                /\ NoEmptyElement(retrieve_logged_images(startLog[p]))
                /\ retrieve_logged_images(startLog[p])[i] \in stale[p]) =>
                   ~AbortedAt(p, i)

\* The build of p ran over a record that held no identifier when it
\* started, read its whole output, extracted a non-empty hash and ended
\* with success.
BuiltOnEmptyRecord(p) ==
    /\ kind[p] = "build"
    /\ pc[p] = "idle"
    /\ outcome[p] = "ok"
    /\ eof[p]
    /\ hash[p] # None
    /\ hash[p][1] # <<>>
    /\ startLog[p].bytes = <<>>

\* C13: after a successful build over a record file that was absent or
\* zero-length, the record file holds exactly the extracted hash, and a load
\* returns the log of that one hash.
C13_BuildOnEmptyRecord ==
    \A p \in Procs :
        BuiltOnEmptyRecord(p) =>
            /\ LogState = [exists |-> TRUE, bytes |-> hash[p][1]]
            /\ retrieve_logged_images(LogState) = << hash[p][1] >>

\* Element 0 of the document has Config.Labels.tool, a string equal to
\* "spade-docker".
HasOwnerLabel(doc) ==
    /\ doc.t = "array"
    /\ 1 \in DOMAIN doc.a
    /\ doc.a[1].t = "object"
    /\ "Config" \in DOMAIN doc.a[1].m
    /\ doc.a[1].m["Config"].t = "object"
    /\ "Labels" \in DOMAIN doc.a[1].m["Config"].m
    /\ doc.a[1].m["Config"].m["Labels"].t = "object"
    /\ "tool" \in DOMAIN doc.a[1].m["Config"].m["Labels"].m
    /\ doc.a[1].m["Config"].m["Labels"].m["tool"].t = "string"
    /\ doc.a[1].m["Config"].m["Labels"].m["tool"].s = "spade-docker"

\* C14: the label check of a parsed document sends the pass on to the
\* removal exactly when element 0's Config.Labels.tool is the string
\* "spade-docker", and to the next position otherwise; it never ends the
\* clean.
C14_OwnershipFilter ==
    [][\A p \in Procs :
          (pc[p] = "check" /\ outcome'[p] # "killed") =>
              /\ pc'[p] = IF HasOwnerLabel(image_info[p]) THEN "rmi" ELSE "loop"
              /\ outcome'[p] = "running"
              /\ idx'[p] = IF HasOwnerLabel(image_info[p]) THEN idx[p]
                           ELSE idx[p] + 1]_vars
\* A clean has passed over an identifier found not owned and has found the
\* next one owned.
C14_Witness ==
    \E p \in Procs :
        /\ pc[p] = "rmi"
        /\ pass[p] = <<"not_owned", "owned">>
        /\ image_info[p] = Labelled(JObj([tool |-> JStr("spade-docker")]))

\* The identifiers of a log.
IdsOf(log) == {log[k] : k \in 1..Len(log)}
\* The step is a rename of p that publishes the bytes p wrote.
PublishesOwn(p) ==
    /\ Renames(p)
    /\ data[files[temp_file]] = wbuf[p]

\* C15: nothing orders the invocations: the rename of a clean that
\* publishes its own bytes makes the stored log the part after its position
\* of the log it loaded, whatever has been stored since that load, so a
\* non-empty identifier appended in between is gone.
C15_LostUpdate ==
    [][\A q \in Procs :
          (kind[q] = "clean" /\ PublishesOwn(q)) =>
              /\ LogState'.bytes =
                     join(SubSeq(retrieve_logged_images(seen[q]), idx[q] + 1,
                                 Len(retrieve_logged_images(seen[q]))), NL)
              /\ \A h \in IdsOf(retrieve_logged_images(LogState)) :
                     (h # <<>> /\ h \notin IdsOf(retrieve_logged_images(seen[q]))) =>
                         h \notin IdsOf(retrieve_logged_images(LogState'))]_vars
\* A build and a clean have both ended with success; the clean loaded the
\* log before the build appended its hash, started its replace when the
\* hash was stored, did not remove the image of that hash, and the hash is
\* not in the stored log.
C15_Witness ==
    \E p \in Procs, q \in Procs :
        /\ kind[p] = "build" /\ pc[p] = "idle" /\ outcome[p] = "ok"
        /\ kind[q] = "clean" /\ pc[q] = "idle" /\ outcome[q] = "ok"
        /\ hash[p][1] \notin IdsOf(retrieve_logged_images(startLog[p]))
        /\ hash[p][1] \notin IdsOf(retrieve_logged_images(seen[q]))
        /\ hash[p][1] \in IdsOf(retrieve_logged_images(preLog[q]))
        /\ hash[p][1] \notin removed[q]
        /\ hash[p][1] \notin StoredIds

\* The positions for which the clean of p has asked for a removal and got
\* an answer.
Asked(p) == {i \in 1..Len(pass[p]) : pass[p][i] \in {"removed", "kept"}}

\* C16: a clean asks for the removal of the identifier at a position only
\* in the pass over that position, after the inspection of that pass gave a
\* document and the label check found it owned.
C16_RemovalOnlyOfOwned ==
    [][\A p \in Procs :
          /\ pc'[p] = "rmi" =>
                 /\ HasOwnerLabel(image_info'[p])
                 /\ pass'[p][idx'[p]] = "owned"
          /\ \A i \in Asked(p)' \ Asked(p) :
                 /\ pc[p] = "rmi"
                 /\ i = idx[p]
                 /\ pass[p][i] = "owned"
                 /\ HasOwnerLabel(image_info[p])]_vars
\* A clean of [a, b] found a not owned and left it alone, found b owned and
\* had it removed.
C16_Witness ==
    \E p \in Procs :
        /\ kind[p] = "clean" /\ pc[p] = "idle" /\ outcome[p] = "ok"
        /\ startLog[p].bytes = <<"a", NL, "b">>
        /\ pass[p] = <<"not_owned", "removed">>
        /\ removed[p] = { <<"b">> }
        /\ kept[p] = {}

\* C17: while a build reads, what it has forwarded to the terminal and what
\* it has accumulated are the bytes read so far, in the order the builder
\* wrote them; and it leaves the read loop only after a read of zero bytes,
\* with every byte the builder wrote accumulated.
C17_TeeLoopExit ==
    \A p \in Procs :
        /\ (kind[p] = "build" /\ pc[p] # "idle") =>
               /\ captured[p] = SubSeq(stream[p], 1, pos[p])
               /\ terminal[p] = captured[p]
        /\ (kind[p] = "build" /\ pc[p] \notin {"idle", "read"}) =>
               /\ eof[p]
               /\ captured[p] = stream[p]

\* C18: with invocations running at once, every rename that succeeds
\* makes the canonical file hold the bytes of the log its invocation was
\* given.
C18_OwnContentPublished ==
    [][\A p \in Procs : Renames(p) => LogState'.bytes = wbuf[p]]_vars

\* C19: after a clean, every identifier whose removal the clean asked for
\* and saw fail, and never saw succeed, is in the stored log.
C19_NoOrphanedOwnedImage ==
    \A p \in Procs :
        (kind[p] = "clean" /\ pc[p] = "idle") =>
            (kept[p] \ removed[p]) \subseteq StoredIds

\* C20: when the bytes the builder writes are valid UTF-8 as a whole, no
\* read of the loop, whatever number of bytes it returns, ends the build in
\* a panic.
C20_ChunkingIndependence ==
    [][\A p \in Procs :
          (pc[p] = "read" /\ IsUtf8(stream[p])) =>
              ~(pc'[p] = "idle" /\ outcome'[p] = "panic")]_vars

====
